---- MODULE Spec2Model ----
(***************************************************************************)
(* ChannelWrapper of rabbit-fire (src/src/ChannelWrapper.ts): the outbound  *)
(* queue, the setup pipeline run by _onConnect, consumer re-subscription,   *)
(* the publish worker and close().                                          *)
(*                                                                          *)
(* Node runs the wrapper on one thread.  One action of this module is one   *)
(* synchronous run of wrapper code: a public method up to its first await,  *)
(* an event handler, or the continuation of an await.  Continuations that   *)
(* are queued as microtasks (after a promise of the wrapper has settled)    *)
(* run before any further event or I/O completion: MicrotaskPending blocks  *)
(* those, and leaves only calls of the public methods enabled.              *)
(***************************************************************************)
EXTENDS Integers, Sequences, FiniteSets, TLC

\* ---------------------------------------------------------------- bounds
\* number of publish() calls
MaxMsgs == 3
\* number of 'connect' events of the connection manager
MaxConnects == 2
\* number of close() calls
MaxClose == 2
\* number of consume() calls
MaxConsumers == 2
\* number of consume() calls in the specification of the backlog
BacklogConsumers == 1
\* number of messages already queued when the worker specification starts
Backlog == 5
\* the batch ceiling of the worker; 1000 in the source (ChannelWrapper.ts:7),
\* scaled down so that a queue longer than one batch is reachable
MAX_MESSAGES_PER_BATCH == 2

Msgs == 1..(IF Backlog > MaxMsgs THEN Backlog ELSE MaxMsgs)
Conns == 1..MaxConnects
Cons == 1..MaxConsumers

Min(a, b) == IF a < b THEN a ELSE b

VARIABLES
    \* ---- fields of ChannelWrapper
    channel,          \* _channel: 0 = undefined, k = the channel created by the k-th _onConnect
    settingUp,        \* _settingUp: 0 = undefined, k = the promise built by the k-th _onConnect
    messages,         \* _messages: the queued messages, head first
    consumers,        \* _consumers: the registry, in registration order
    consumerTag,      \* consumer.consumerTag: 0 = null, k = tag confirmed on channel k
    working,          \* _working
    workerNumber,     \* _workerNumber
    channelHasRoom,   \* _channelHasRoom
    \* ---- the connection manager, as seen by the wrapper
    listening,        \* the wrapper's 'connect'/'disconnect' listeners are registered
    connected,        \* the manager holds a connection
    nconn,            \* number of connections the manager has made so far
    \* ---- asynchronous steps in flight
    pc,               \* position of each _onConnect invocation
    scheduled,        \* worker numbers with a setImmediate callback pending
    requests,         \* channel.consume() calls without a reply yet
    cpc,              \* position of each consume() call
    cwait,            \* the _settingUp promise a consume() call awaits
    open,             \* channels created whose 'close' event was not delivered yet
    broken,           \* channels of these that are closed underneath: a send throws
    pressured,        \* channels whose last publish returned false ('drain' due)
    active,           \* <<c, k>>: the broker holds a subscription of consumer c on channel k
    \* ---- what the callers and the broker observe
    nextMsg,          \* id of the next publish() call; ids are in call order
    sent,             \* messages handed to channel.publish, in order
    resolved,         \* calls of message.resolve, per message
    rejected,         \* calls of message.reject, per message
    queuedDown,       \* messages whose publish() found no channel handle
    closeCalls,       \* number of close() calls so far
    setupRuns,        \* setupRuns[k]: calls of the setup function on channel k
    emitted,          \* the events the wrapper emitted in the last step
    step              \* what else the last step took in and called (see NoStep)

wrapperVars == <<channel, settingUp, messages, consumers, consumerTag, working,
                 workerNumber, channelHasRoom>>
managerVars == <<listening, connected, nconn>>
asyncVars == <<pc, scheduled, requests, cpc, cwait, open, broken, pressured,
               active>>
historyVars == <<nextMsg, sent, resolved, rejected, queuedDown, closeCalls,
                 setupRuns>>
observedVars == <<historyVars, emitted, step>>

\* The observation of one step:
\*   input         what the environment delivered: the outcome of the setup
\*                 function, the error code of a rejected channel.consume, or
\*                 "drain" for a 'drain' event of a channel
\*   sentOn        the handle channel.publish was called on, 0 when not called
\*   rets          the booleans channel.publish returned
\*   resolvedWith  the booleans passed to message.resolve
\*   subs          the channel.consume calls made, <<consumer, handle>>, in order
\*   cancelOf      the consumer whose tag cancel() was called with, 0 if none
\*   cancels       the consumers channel.cancel was called for
\*   handled       consumer.onMessage was called
\*   worker        the number of the worker invocation that sent, 0 if none
\*   threw         a call of channel.publish threw
NoStep ==
    [input |-> "none", sentOn |-> 0, rets |-> {}, resolvedWith |-> {},
     subs |-> <<>>, cancelOf |-> 0, cancels |-> {}, handled |-> FALSE,
     worker |-> 0, threw |-> FALSE]
vars == <<wrapperVars, managerVars, asyncVars, observedVars>>

\* ------------------------------------------------------------ construction
\* The constructor: empty queue and registry, one setup function, listeners
\* registered; when the manager already holds a connection, _onConnect is
\* called at once and waits for createChannel().
Init ==
    /\ channel = 0
    /\ settingUp = 0
    /\ messages = <<>>
    /\ consumers = <<>>
    /\ consumerTag = [c \in Cons |-> 0]
    /\ working = FALSE
    /\ workerNumber = 0
    /\ channelHasRoom = TRUE
    /\ listening = TRUE
    /\ connected \in BOOLEAN
    /\ nconn = IF connected THEN 1 ELSE 0
    /\ pc = [i \in Conns |-> IF connected /\ i = 1 THEN "creating" ELSE "idle"]
    /\ scheduled = {}
    /\ requests = {}
    /\ cpc = [c \in Cons |-> "idle"]
    /\ cwait = [c \in Cons |-> 0]
    /\ open = {}
    /\ broken = {}
    /\ pressured = {}
    /\ active = {}
    /\ nextMsg = 1
    /\ sent = <<>>
    /\ resolved = [m \in Msgs |-> 0]
    /\ rejected = [m \in Msgs |-> 0]
    /\ queuedDown = {}
    /\ closeCalls = 0
    /\ setupRuns = [k \in Conns |-> 0]
    /\ emitted = {}
    /\ step = NoStep

\* A continuation queued as a microtask has not run yet: the continuation of
\* `await this._settingUp` in _onConnect, or in consume() (which registered its
\* await later and so runs after _onConnect's).
MicrotaskPending ==
    \/ \E i \in Conns : pc[i] = "resolved"
    \/ \E c \in Cons : cpc[c] = "wait" /\ pc[cwait[c]] \in {"done", "failed"}

\* ------------------------------------------------------------- the worker
\* _shouldPublish(), with the flow-control flag as the caller left it
ShouldPublish(rm) ==
    Len(messages) > 0 /\ settingUp = 0 /\ channel # 0 /\ rm

\* a plausible slip: the worker keeps the handle of the first channel
FirstChannel == IF channel = 0 THEN 0 ELSE 1

\* `const channel = this._channel` at the top of _publishExchangeMessages
CapturedChannel == channel

\* what n sends returned when the last of them returned r
BatchReturns(n, r) == IF n > 1 THEN {TRUE, r} ELSE {r}

\* The while loop of _publishExchangeMessages: n messages are shifted off the
\* head and handed to `channel`; the first n-1 sends returned true, the last
\* returned r.  The loop ends when a send returns false, the queue is empty or
\* the batch ceiling is reached.
SendBatch(w, n, r, sch, pr, ev) ==
    /\ step' = [NoStep EXCEPT !.input = ev,
                              !.sentOn = CapturedChannel,
                              !.rets = BatchReturns(n, r),
                              !.resolvedWith = BatchReturns(n, r),
                              !.worker = w]
    /\ messages' = SubSeq(messages, n + 1, Len(messages))
    /\ sent' = sent \o SubSeq(messages, 1, n)
    /\ resolved' = [m \in Msgs |->
                      resolved[m] + Cardinality({i \in 1..n : messages[i] = m})]
    /\ channelHasRoom' = r
    /\ pressured' = IF r THEN pr ELSE pr \cup {channel}
    /\ IF r /\ Len(messages) > n
          THEN scheduled' = sch \cup {w} /\ working' = TRUE
          ELSE scheduled' = sch /\ working' = FALSE

\* The while loop when channel.publish throws, as it does on a channel that
\* is closed underneath: the head of the queue has been shifted off, the
\* catch block clears _working and emits 'error'; message.resolve is never
\* reached and nothing rejects the message.
ThrowBatch(sch, pr, ev) ==
    /\ step' = [NoStep EXCEPT !.input = ev, !.sentOn = CapturedChannel,
                              !.threw = TRUE]
    /\ messages' = Tail(messages)
    /\ working' = FALSE
    /\ scheduled' = sch
    /\ pressured' = pr
    /\ channelHasRoom' = TRUE
    /\ UNCHANGED <<sent, resolved>>

\* the 'error' event of the catch block of _publishExchangeMessages
WorkerErrors == IF step'.threw THEN {"error"} ELSE {}

\* a plausible slip: the generation number is not compared
StaleNever(w, wn) == FALSE

\* `workerNumber !== this._workerNumber`: invocation w belongs to a worker
\* that _onDisconnect killed and a later _startWorker replaced
StaleInvocation(w, wn) == w # wn

\* a plausible slip: the loop has no ceiling
BatchLimitWholeQueue == Len(messages)

\* the most sends one invocation makes: the loop runs while the queue is
\* non-empty and sendsLeft, counted down from the ceiling, is positive
BatchLimit == Min(Len(messages), MAX_MESSAGES_PER_BATCH)

\* _publishExchangeMessages(w), entered with _working = wk, _workerNumber = wn,
\* _channelHasRoom = rm, the pending setImmediate callbacks sch and the
\* channels under backpressure pr.
PublishExchangeMessages(w, wk, wn, rm, sch, pr, ev) ==
    IF channel = 0 \/ ~ShouldPublish(rm) \/ ~wk \/ StaleInvocation(w, wn)
    THEN /\ working' = FALSE
         /\ channelHasRoom' = rm
         /\ scheduled' = sch
         /\ pressured' = pr
         /\ step' = [NoStep EXCEPT !.input = ev]
         /\ UNCHANGED <<messages, sent, resolved>>
    ELSE IF CapturedChannel \in broken
         THEN ThrowBatch(sch, pr, ev)
         ELSE \E n \in 1..BatchLimit, r \in BOOLEAN :
                 /\ (n < BatchLimit => ~r)
                 /\ SendBatch(w, n, r, sch, pr, ev)

\* a plausible slip: the generation number is not bumped
SameWorkerNumber == workerNumber

\* `this._workerNumber++` of _startWorker
NextWorkerNumber == workerNumber + 1

\* _startWorker(), entered with _channelHasRoom = rm while the event ev is
\* handled
StartWorker(rm, pr, ev) ==
    IF ~working /\ ShouldPublish(rm)
    THEN /\ workerNumber' = NextWorkerNumber
         /\ PublishExchangeMessages(NextWorkerNumber, TRUE, NextWorkerNumber, rm,
                                    scheduled, pr, ev)
    ELSE /\ channelHasRoom' = rm
         /\ pressured' = pr
         /\ step' = [NoStep EXCEPT !.input = ev]
         /\ UNCHANGED <<workerNumber, working, scheduled, messages, sent,
                        resolved>>

\* a setImmediate callback of the worker runs
WorkerTick(w) ==
    /\ w \in scheduled
    /\ ~MicrotaskPending
    /\ PublishExchangeMessages(w, working, workerNumber, channelHasRoom,
                               scheduled \ {w}, pressured, "none")
    /\ UNCHANGED <<channel, settingUp, consumers, consumerTag, workerNumber,
                   managerVars, pc, requests, cpc, cwait, open, broken, active, nextMsg,
                   rejected, queuedDown, closeCalls, setupRuns>>
    /\ emitted' = WorkerErrors

\* ---------------------------------------------------------------- publish
\* a plausible slip: unshift instead of push
EnqueueAtHead(msgs, m) == <<m>> \o msgs

\* _enqueueMessage(): push at the tail
EnqueueMessage(msgs, m) == Append(msgs, m)

\* a plausible slip: the test of _settingUp is left out
CanSendIgnoringSetup == channel # 0 /\ channelHasRoom

\* the condition of publish(): !this._settingUp && !!this._channel &&
\* this._channelHasRoom
CanSendNow == settingUp = 0 /\ channel # 0 /\ channelHasRoom

\* publish(): send at once when there is a channel, no setup and room;
\* otherwise _enqueueMessage.  A channel.publish that throws does so inside
\* the executor of the returned promise, which rejects it.
Publish ==
    /\ nextMsg <= MaxMsgs
    /\ nextMsg' = nextMsg + 1
    /\ IF CanSendNow
       THEN IF channel \in broken
            THEN /\ rejected' = [rejected EXCEPT ![nextMsg] = @ + 1]
                 /\ step' = [NoStep EXCEPT !.sentOn = channel, !.threw = TRUE]
                 /\ UNCHANGED <<channelHasRoom, pressured, sent, resolved,
                                messages, queuedDown>>
            ELSE \E r \in BOOLEAN :
                    /\ channelHasRoom' = r
                    /\ pressured' = IF r THEN pressured
                                         ELSE pressured \cup {channel}
                    /\ sent' = Append(sent, nextMsg)
                    /\ resolved' = [resolved EXCEPT ![nextMsg] = @ + 1]
                    /\ step' = [NoStep EXCEPT !.sentOn = channel, !.rets = {r},
                                              !.resolvedWith = {channelHasRoom'}]
                    /\ UNCHANGED <<messages, queuedDown, rejected>>
       ELSE /\ messages' = EnqueueMessage(messages, nextMsg)
            /\ queuedDown' = IF channel = 0 THEN queuedDown \cup {nextMsg}
                                           ELSE queuedDown
            /\ step' = NoStep
            /\ UNCHANGED <<channelHasRoom, pressured, sent, resolved, rejected>>
    /\ UNCHANGED <<channel, settingUp, consumers, consumerTag, working, workerNumber,
                   managerVars, pc, scheduled, requests, cpc, cwait, open, broken,
                   active, closeCalls, setupRuns>>
    /\ emitted' = {}

\* ------------------------------------------------------------------ close
\* close(): stop the worker, reject every queued message, remove the manager
\* listeners, ask the channel to close and drop the handle.  _messages is
\* left as it is.
Close ==
    /\ closeCalls < MaxClose
    /\ closeCalls' = closeCalls + 1
    /\ working' = FALSE
    /\ rejected' = [m \in Msgs |->
                      rejected[m] + Cardinality({i \in 1..Len(messages) : messages[i] = m})]
    /\ listening' = FALSE
    /\ channel' = 0
    /\ UNCHANGED <<settingUp, messages, consumers, consumerTag, workerNumber,
                   channelHasRoom, connected, nconn, asyncVars, nextMsg, sent,
                   resolved, queuedDown, setupRuns>>
    /\ emitted' = {"close"}
    /\ step' = NoStep

\* ------------------------------------------------- connection manager events
\* The manager emits 'connect'; a listening wrapper starts an _onConnect
\* invocation, which calls connection.createChannel() and awaits it.
ManagerConnect ==
    /\ ~connected
    /\ nconn < MaxConnects
    /\ ~MicrotaskPending
    /\ connected' = TRUE
    /\ nconn' = nconn + 1
    /\ pc' = IF listening THEN [pc EXCEPT ![nconn + 1] = "creating"] ELSE pc
    /\ UNCHANGED <<wrapperVars, listening, scheduled, requests, cpc, cwait, open, broken,
                   pressured, active, historyVars>>
    /\ emitted' = {}
    /\ step' = NoStep

\* The manager emits 'disconnect'; _onDisconnect of a listening wrapper.
OnDisconnect ==
    /\ connected
    /\ ~MicrotaskPending
    /\ connected' = FALSE
    /\ IF listening
       THEN channel' = 0 /\ settingUp' = 0 /\ working' = FALSE
       ELSE UNCHANGED <<channel, settingUp, working>>
    /\ UNCHANGED <<messages, consumers, consumerTag, workerNumber, channelHasRoom,
                   listening, nconn, asyncVars, historyVars>>
    /\ emitted' = {}
    /\ step' = NoStep

\* ------------------------------------------------------------- _onConnect
\* a plausible slip: the setup function is only run for the first channel
RunSetupsOnce(i) ==
    IF \E k \in Conns : setupRuns[k] > 0 THEN setupRuns
    ELSE [setupRuns EXCEPT ![i] = @ + 1]

\* this._setups.map(setupFn => setupFn(channel)): the setup function given to
\* the constructor is called once, on the channel just created
RunSetups(i) == [setupRuns EXCEPT ![i] = @ + 1]

\* createChannel() of the i-th connection resolves while that connection is
\* up: the handle, the flag and _settingUp are installed and every setup
\* function is called on the new channel.
CreateChannelOk(i) ==
    /\ pc[i] = "creating"
    /\ connected /\ nconn = i
    /\ ~MicrotaskPending
    /\ channel' = i
    /\ channelHasRoom' = TRUE
    /\ settingUp' = i
    /\ open' = open \cup {i}
    /\ UNCHANGED broken
    /\ setupRuns' = RunSetups(i)
    /\ pc' = [pc EXCEPT ![i] = "setup"]
    /\ UNCHANGED <<messages, consumers, consumerTag, working, workerNumber,
                   managerVars, scheduled, requests, cpc, cwait, pressured, active,
                   nextMsg, sent, resolved, rejected, queuedDown, closeCalls>>
    /\ emitted' = {}
    /\ step' = NoStep

\* createChannel() rejects: the catch block of _onConnect.
CreateChannelFail(i) ==
    /\ pc[i] = "creating"
    /\ ~MicrotaskPending
    /\ emitted' = {"error"}
    /\ step' = NoStep
    /\ settingUp' = 0
    /\ channel' = 0
    /\ pc' = [pc EXCEPT ![i] = "createFailed"]
    /\ UNCHANGED <<messages, consumers, consumerTag, working, workerNumber,
                   channelHasRoom, managerVars, scheduled, requests, cpc, cwait, open, broken,
                   pressured, active, nextMsg, sent, resolved, rejected, queuedDown,
                   closeCalls, setupRuns>>

SetupOutcomes == {"ok", "IllegalOperationError", "error"}

\* a plausible slip: every failure of a setup function is emitted
SetupErrorEventsAll(outcome) == IF outcome # "ok" THEN {"error"} ELSE {}

\* The catch of a setup function's promise: an IllegalOperationError is
\* dropped, any other error is emitted.
SetupErrorEvents(outcome) == IF outcome = "error" THEN {"error"} ELSE {}

\* this._consumers.map(c => this._reconnectConsumer(c)): the channel.consume
\* calls made for the registry, in its order.  _consume() returns at once
\* without a handle, and otherwise subscribes on the handle that is current now.
ResubscribeCalls ==
    IF channel = 0 THEN <<>>
    ELSE [j \in 1..Len(consumers) |-> <<consumers[j], channel>>]

\* The consume() requests in flight after ResubscribeCalls on behalf of
\* pipeline i.
ResubscribeRequests(i) ==
    {[c |-> ResubscribeCalls[j][1], ch |-> ResubscribeCalls[j][2], by |-> i] :
        j \in 1..Len(ResubscribeCalls)}

\* The setup function of pipeline i settles (a failure is caught and, unless it
\* is an IllegalOperationError, emitted); the next `then` re-subscribes the
\* registry.  With nothing to wait for, the last `then` clears _settingUp.
SetupDone(i, outcome) ==
    /\ pc[i] = "setup"
    /\ ~MicrotaskPending
    /\ emitted' = SetupErrorEvents(outcome)
    /\ step' = [NoStep EXCEPT !.input = outcome, !.subs = ResubscribeCalls]
    /\ IF ResubscribeRequests(i) = {}
       THEN /\ settingUp' = 0
            /\ pc' = [pc EXCEPT ![i] = "resolved"]
            /\ UNCHANGED requests
       ELSE /\ requests' = requests \cup ResubscribeRequests(i)
            /\ pc' = [pc EXCEPT ![i] = "resub"]
            /\ UNCHANGED settingUp
    /\ UNCHANGED <<channel, messages, consumers, consumerTag, working, workerNumber,
                   channelHasRoom, managerVars, scheduled, cpc, cwait, open, broken, pressured,
                   active, nextMsg, sent, resolved, rejected, queuedDown, closeCalls,
                   setupRuns>>

\* The continuation of `await this._settingUp` in _onConnect.
OnConnectResume(i) ==
    /\ pc[i] = "resolved"
    /\ pc' = [pc EXCEPT ![i] = "done"]
    /\ IF channel = 0
       THEN /\ UNCHANGED <<workerNumber, working, scheduled, messages, sent,
                           resolved, channelHasRoom, pressured>>
            /\ emitted' = {}
            /\ step' = NoStep
       ELSE /\ StartWorker(channelHasRoom, pressured, "none")
            /\ emitted' = WorkerErrors \cup {"connect"}
    /\ UNCHANGED <<channel, settingUp, consumers, consumerTag, managerVars, requests,
                   cpc, cwait, open, broken, active, nextMsg, rejected, queuedDown,
                   closeCalls, setupRuns>>

\* ------------------------- parts of the subscription callback and cancel()
\* a plausible slip: the subscription callback hands every call to the handler
OnMessageCalledAlways(msgIsNull) == TRUE

\* the subscription callback calls consumer.onMessage unless the message is null
OnMessageCalled(msgIsNull) == ~msgIsNull

\* `this._channel && consumer.consumerTag` of cancel()
CancelIssued(c) == channel # 0 /\ consumerTag[c] # 0

\* a plausible slip: cancel() removes the entry and every entry after it
SpliceOutTail(cs, c) ==
    SubSeq(cs, 1, (CHOOSE j \in 1..Len(cs) : cs[j] = c) - 1)

\* this._consumers.splice(idx, 1) at the index of consumer c
SpliceOut(cs, c) ==
    SubSeq(cs, 1, (CHOOSE j \in 1..Len(cs) : cs[j] = c) - 1)
        \o SubSeq(cs, (CHOOSE j \in 1..Len(cs) : cs[j] = c) + 1, Len(cs))

\* ------------------------------------------------------- consume() replies
\* The broker confirms a subscription: _consume stores the tag.  The last
\* confirmation of a pipeline's re-subscription lets its last `then` clear
\* _settingUp.  A consume() call that awaited the reply returns.
ConsumeOk(q) ==
    /\ q \in requests
    /\ q.ch \in open
    /\ ~MicrotaskPending
    /\ requests' = requests \ {q}
    /\ active' = active \cup {<<q.c, q.ch>>}
    /\ consumerTag' = [consumerTag EXCEPT ![q.c] = q.ch]
    /\ IF q.by > 0 /\ pc[q.by] = "resub" /\ ~\E o \in requests' : o.by = q.by
       THEN settingUp' = 0 /\ pc' = [pc EXCEPT ![q.by] = "resolved"]
       ELSE UNCHANGED <<settingUp, pc>>
    /\ cpc' = IF q.by = 0 THEN [cpc EXCEPT ![q.c] = "done"] ELSE cpc
    /\ UNCHANGED <<channel, messages, consumers, working, workerNumber,
                   channelHasRoom, managerVars, scheduled, cwait, open, broken, pressured,
                   historyVars>>
    /\ emitted' = {}
    /\ step' = NoStep

\* the error codes channel.consume is rejected with: 404 (no such queue) and
\* one standing for every other
ErrorCodes == {"404", "other"}

\* The catch of _reconnectConsumer in the subscription callback: code 404 is
\* dropped, any other error is emitted.
ResubscribeErrorEvents(code) == IF code = "404" THEN {} ELSE {"error"}

\* A subscription request fails.  In a pipeline the rejection reaches the catch
\* block of _onConnect; after a broker cancel it reaches the catch of the
\* subscription callback; a consume() call rejects to its caller.
ConsumeFail(q, code) ==
    /\ q \in requests
    /\ ~MicrotaskPending
    /\ requests' = requests \ {q}
    /\ step' = [NoStep EXCEPT !.input = code]
    /\ IF q.by > 0 /\ pc[q.by] = "resub"
       THEN /\ emitted' = {"error"}
            /\ settingUp' = 0
            /\ channel' = 0
            /\ pc' = [pc EXCEPT ![q.by] = "failed"]
       ELSE /\ emitted' = IF q.by = -1 THEN ResubscribeErrorEvents(code) ELSE {}
            /\ UNCHANGED <<settingUp, channel, pc>>
    /\ cpc' = IF q.by = 0 THEN [cpc EXCEPT ![q.c] = "rejected"] ELSE cpc
    /\ UNCHANGED <<messages, consumers, consumerTag, working, workerNumber,
                   channelHasRoom, managerVars, scheduled, cwait, open, broken, pressured,
                   active, nextMsg, sent, resolved, rejected, queuedDown, closeCalls,
                   setupRuns>>

\* ---------------------------------------------------------------- consume
\* `this._consumers.push(consumer); await this._consume(consumer)` of
\* consume(): register, and subscribe when there is a handle.
ConsumeRegister(c) ==
    /\ consumers' = Append(consumers, c)
    /\ IF channel = 0
       THEN /\ cpc' = [cpc EXCEPT ![c] = "done"]
            /\ step' = NoStep
            /\ UNCHANGED requests
       ELSE /\ cpc' = [cpc EXCEPT ![c] = "subscribing"]
            /\ step' = [NoStep EXCEPT !.subs = << <<c, channel>> >>]
            /\ requests' = requests \cup {[c |-> c, ch |-> channel, by |-> 0]}

\* consume() from `if (this._settingUp)` on: await the promise, or register
\* the consumer and subscribe it when there is a handle.
ConsumeProceed(c) ==
    IF settingUp # 0
    THEN /\ cpc' = [cpc EXCEPT ![c] = "wait"]
         /\ cwait' = [cwait EXCEPT ![c] = settingUp]
         /\ step' = NoStep
         /\ UNCHANGED <<consumers, requests>>
    ELSE /\ ConsumeRegister(c)
         /\ cwait' = cwait

\* consume() is called, with options.consumerTag or without (then it first
\* awaits randomBytes).
Consume(c, tagGiven) ==
    /\ cpc[c] = "idle"
    /\ \A d \in Cons : d < c => cpc[d] # "idle"
    /\ IF tagGiven
       THEN ConsumeProceed(c)
       ELSE /\ cpc' = [cpc EXCEPT ![c] = "rand"]
            /\ step' = NoStep
            /\ UNCHANGED <<consumers, requests, cwait>>
    /\ UNCHANGED <<channel, settingUp, messages, consumerTag, working, workerNumber,
                   channelHasRoom, managerVars, pc, scheduled, open, broken, pressured,
                   active, historyVars>>
    /\ emitted' = {}

\* randomBytes() delivers the tag
ConsumeTagReady(c) ==
    /\ cpc[c] = "rand"
    /\ ~MicrotaskPending
    /\ ConsumeProceed(c)
    /\ UNCHANGED <<channel, settingUp, messages, consumerTag, working, workerNumber,
                   channelHasRoom, managerVars, pc, scheduled, open, broken, pressured,
                   active, historyVars>>
    /\ emitted' = {}

\* The continuation of `await this._settingUp` in consume(): the promise was
\* fulfilled (register and subscribe) or rejected (consume() rejects).
ConsumeResume(c) ==
    /\ cpc[c] = "wait"
    /\ pc[cwait[c]] \in {"done", "failed"}
    /\ ~\E i \in Conns : pc[i] = "resolved"
    /\ IF pc[cwait[c]] = "failed"
       THEN /\ cpc' = [cpc EXCEPT ![c] = "rejected"]
            /\ step' = NoStep
            /\ UNCHANGED <<consumers, requests, cwait>>
       ELSE /\ ConsumeRegister(c)
            /\ cwait' = cwait
    /\ UNCHANGED <<channel, settingUp, messages, consumerTag, working, workerNumber,
                   channelHasRoom, managerVars, pc, scheduled, open, broken, pressured,
                   active, historyVars>>
    /\ emitted' = {}

\* ------------------------------------------------------- the subscription
\* The callback given to channel.consume for consumer c on channel k is called
\* with a message: consumer.onMessage(msg).
Deliver(c, k) ==
    /\ <<c, k>> \in active
    /\ ~MicrotaskPending
    /\ step' = [NoStep EXCEPT !.handled = OnMessageCalled(FALSE)]
    /\ emitted' = {}
    /\ UNCHANGED <<wrapperVars, managerVars, asyncVars, historyVars>>

\* The callback is called with null (the broker cancelled the consumer): the
\* tag is cleared and _reconnectConsumer subscribes the consumer again when it
\* is still in the registry and there is a handle.
BrokerCancel(c, k) ==
    /\ <<c, k>> \in active
    /\ ~MicrotaskPending
    /\ active' = active \ {<<c, k>>}
    /\ consumerTag' = [consumerTag EXCEPT ![c] = 0]
    /\ IF c \in {consumers[j] : j \in 1..Len(consumers)} /\ channel # 0
       THEN /\ requests' = requests \cup {[c |-> c, ch |-> channel, by |-> -1]}
            /\ step' = [NoStep EXCEPT !.subs = << <<c, channel>> >>,
                                      !.handled = OnMessageCalled(TRUE)]
       ELSE /\ step' = [NoStep EXCEPT !.handled = OnMessageCalled(TRUE)]
            /\ UNCHANGED requests
    /\ emitted' = {}
    /\ UNCHANGED <<channel, settingUp, messages, consumers, working, workerNumber,
                   channelHasRoom, managerVars, pc, scheduled, cpc, cwait, open, broken,
                   pressured, historyVars>>

\* ----------------------------------------------------------------- cancel
\* cancel(tag) with the tag of consumer c: the consumer leaves the registry;
\* channel.cancel is called when there is a handle and the consumer holds a
\* tag.  With a tag the registry does not hold, nothing happens.
Cancel(c) ==
    /\ cpc[c] # "idle"
    /\ IF c \in {consumers[j] : j \in 1..Len(consumers)}
       THEN /\ consumers' = SpliceOut(consumers, c)
            /\ IF CancelIssued(c)
               THEN /\ step' = [NoStep EXCEPT !.cancelOf = c, !.cancels = {c}]
                    /\ active' = active \ {<<c, channel>>}
               ELSE /\ step' = [NoStep EXCEPT !.cancelOf = c]
                    /\ UNCHANGED active
       ELSE /\ step' = [NoStep EXCEPT !.cancelOf = c]
            /\ UNCHANGED <<consumers, active>>
    /\ emitted' = {}
    /\ UNCHANGED <<channel, settingUp, messages, consumerTag, working, workerNumber,
                   channelHasRoom, managerVars, pc, scheduled, requests, cpc, cwait,
                   open, broken, pressured, historyVars>>

\* cancelAll(): the registry is emptied; with a handle, channel.cancel is
\* called for every consumer that holds a tag.
CancelAll ==
    /\ consumers # <<>>
    /\ consumers' = <<>>
    /\ IF channel = 0
       THEN /\ step' = NoStep
            /\ UNCHANGED active
       ELSE /\ step' = [NoStep EXCEPT !.cancels =
                          {consumers[j] : j \in {n \in 1..Len(consumers) :
                                                   consumerTag[consumers[n]] # 0}}]
            /\ active' = active \ {<<consumers[j], channel>> :
                                      j \in {n \in 1..Len(consumers) :
                                               consumerTag[consumers[n]] # 0}}
    /\ emitted' = {}
    /\ UNCHANGED <<channel, settingUp, messages, consumerTag, working, workerNumber,
                   channelHasRoom, managerVars, pc, scheduled, requests, cpc, cwait,
                   open, broken, pressured, historyVars>>

\* ---------------------------------------------------------- channel events
\* a plausible slip: the handle is cleared whichever channel closed
HandleAfterAnyClose(k) == 0

\* `if (this._channel === channel) this._channel = undefined`
HandleAfterClose(k) == IF channel = k THEN 0 ELSE channel

\* 'close' of channel k: _onChannelClose(k)
OnChannelClose(k) ==
    /\ k \in open
    /\ ~MicrotaskPending
    /\ open' = open \ {k}
    /\ broken' = broken \ {k}
    /\ pressured' = pressured \ {k}
    /\ active' = {s \in active : s[2] # k}
    /\ channel' = HandleAfterClose(k)
    /\ UNCHANGED <<settingUp, messages, consumers, consumerTag, working, workerNumber,
                   channelHasRoom, managerVars, pc, scheduled, requests, cpc, cwait,
                   historyVars>>
    /\ emitted' = {}
    /\ step' = NoStep

\* a plausible slip: the drain handler leaves the flag as it is
RoomAfterDrainKept == channelHasRoom

\* `this._channelHasRoom = true` of _onChannelDrain
RoomAfterDrain == TRUE

\* 'drain' of channel k, due after a publish on k returned false:
\* _onChannelDrain()
OnChannelDrain(k) ==
    /\ k \in open
    /\ k \in pressured
    /\ ~MicrotaskPending
    /\ StartWorker(RoomAfterDrain, pressured \ {k}, "drain")
    /\ UNCHANGED <<channel, settingUp, consumers, consumerTag, managerVars, pc,
                   requests, cpc, cwait, open, broken, active, nextMsg, rejected,
                   queuedDown, closeCalls, setupRuns>>
    /\ emitted' = WorkerErrors

\* Channel k is closed underneath (by the broker, or with its connection);
\* its 'close' event has not been delivered to the wrapper yet.  From now on
\* channel.publish on k throws.
ChannelBreaks(k) ==
    /\ k \in open
    /\ k \notin broken
    /\ ~MicrotaskPending
    /\ broken' = broken \cup {k}
    /\ UNCHANGED <<wrapperVars, managerVars, pc, scheduled, requests, cpc, cwait,
                   open, pressured, active, historyVars>>
    /\ emitted' = {}
    /\ step' = NoStep

\* ------------------------------------------------------------ specification
\* The publish path: publish(), close(), the worker and every event of the
\* connection manager and of the channel, with an empty consumer registry.
Next ==
    \/ Publish
    \/ Close
    \/ ManagerConnect
    \/ OnDisconnect
    \/ \E i \in Conns : CreateChannelOk(i)
    \/ \E i \in Conns : CreateChannelFail(i)
    \/ \E i \in Conns, o \in SetupOutcomes : SetupDone(i, o)
    \/ \E i \in Conns : OnConnectResume(i)
    \/ \E k \in Conns : OnChannelClose(k)
    \/ \E k \in Conns : OnChannelDrain(k)
    \/ \E w \in Msgs : WorkerTick(w)

Spec == Init /\ [][Next]_vars

\* The consumer registry with MaxConsumers consumers, without publish() and
\* close().  publish(), the worker and 'drain' neither read nor write the
\* registry, the requests, the subscriptions, the handle or _settingUp; close()
\* leaves the registry alone and clears the handle as a 'close' of the channel
\* does.
NextConsume ==
    \/ ManagerConnect
    \/ OnDisconnect
    \/ \E i \in Conns : CreateChannelOk(i)
    \/ \E i \in Conns : CreateChannelFail(i)
    \/ \E i \in Conns, o \in SetupOutcomes : SetupDone(i, o)
    \/ \E i \in Conns : OnConnectResume(i)
    \/ \E q \in requests : ConsumeOk(q)
    \/ \E q \in requests, e \in ErrorCodes : ConsumeFail(q, e)
    \/ \E c \in Cons, t \in BOOLEAN : Consume(c, t)
    \/ \E c \in Cons : ConsumeTagReady(c)
    \/ \E c \in Cons : ConsumeResume(c)
    \/ \E c \in Cons, k \in Conns : Deliver(c, k)
    \/ \E c \in Cons, k \in Conns : BrokerCancel(c, k)
    \/ \E c \in Cons : Cancel(c)
    \/ CancelAll
    \/ \E k \in Conns : OnChannelClose(k)

SpecConsume == Init /\ [][NextConsume]_vars

\* Backlog messages were published before the manager first connected; then
\* the worker and the consumers meet: no further publish() and no close(), at
\* most BacklogConsumers calls of consume().
InitBacklog ==
    /\ channel = 0
    /\ settingUp = 0
    /\ messages = [m \in 1..Backlog |-> m]
    /\ consumers = <<>>
    /\ consumerTag = [c \in Cons |-> 0]
    /\ working = FALSE
    /\ workerNumber = 0
    /\ channelHasRoom = TRUE
    /\ listening = TRUE
    /\ connected = FALSE
    /\ nconn = 0
    /\ pc = [i \in Conns |-> "idle"]
    /\ scheduled = {}
    /\ requests = {}
    /\ cpc = [c \in Cons |-> "idle"]
    /\ cwait = [c \in Cons |-> 0]
    /\ open = {}
    /\ broken = {}
    /\ pressured = {}
    /\ active = {}
    /\ nextMsg = Backlog + 1
    /\ sent = <<>>
    /\ resolved = [m \in Msgs |-> 0]
    /\ rejected = [m \in Msgs |-> 0]
    /\ queuedDown = 1..Backlog
    /\ closeCalls = 0
    /\ setupRuns = [k \in Conns |-> 0]
    /\ emitted = {}
    /\ step = NoStep

NextBacklog ==
    \/ ManagerConnect
    \/ OnDisconnect
    \/ \E i \in Conns : CreateChannelOk(i)
    \/ \E i \in Conns : CreateChannelFail(i)
    \/ \E i \in Conns, o \in SetupOutcomes : SetupDone(i, o)
    \/ \E i \in Conns : OnConnectResume(i)
    \/ \E q \in requests : ConsumeOk(q)
    \/ \E q \in requests, e \in ErrorCodes : ConsumeFail(q, e)
    \/ \E c \in 1..BacklogConsumers, t \in BOOLEAN : Consume(c, t)
    \/ \E c \in Cons : ConsumeTagReady(c)
    \/ \E c \in Cons : ConsumeResume(c)
    \/ \E k \in Conns : OnChannelClose(k)
    \/ \E k \in Conns : OnChannelDrain(k)
    \/ \E w \in Msgs : WorkerTick(w)

SpecBacklog == InitBacklog /\ [][NextBacklog]_vars

\* The backlog again, without consumers, on channels that can close
\* underneath before the wrapper hears of it, so that channel.publish can
\* throw.  The other specifications take channel.publish to return.
NextThrow ==
    \/ ManagerConnect
    \/ OnDisconnect
    \/ \E i \in Conns : CreateChannelOk(i)
    \/ \E i \in Conns : CreateChannelFail(i)
    \/ \E i \in Conns, o \in SetupOutcomes : SetupDone(i, o)
    \/ \E i \in Conns : OnConnectResume(i)
    \/ \E k \in Conns : ChannelBreaks(k)
    \/ \E k \in Conns : OnChannelClose(k)
    \/ \E k \in Conns : OnChannelDrain(k)
    \/ \E w \in Msgs : WorkerTick(w)

SpecThrow == InitBacklog /\ [][NextThrow]_vars

\* queueLength()
QueueLength == Len(messages)

\* ------------------------------------------------------------------ claims
Range(f) == {f[i] : i \in DOMAIN f}

\* an _onConnect invocation that got its channel
Created(i) == pc[i] \in {"setup", "resub", "resolved", "done", "failed"}

\* the setup pipeline of channel k has not completed
PipelineRunning(k) == pc[k] \in {"setup", "resub"}

\* no _onConnect invocation, worker callback or subscription is in flight
NothingInFlight ==
    /\ \A i \in Conns : pc[i] \in {"idle", "done", "failed", "createFailed"}
    /\ scheduled = {}
    /\ requests = {}

\* a step hands at least one message to the underlying channel
Sends == Len(sent') > Len(sent)

\* C1: the messages whose publish() found no channel handle are handed to the
\* underlying channel in the order of their publish() calls, whatever
\* connects, disconnects, drains and worker turns happen in between.
C1_QueuedWhileDownFifo ==
    \A i, j \in 1..Len(sent) :
        (i < j /\ sent[i] \in queuedDown /\ sent[j] \in queuedDown) => sent[i] < sent[j]

\* two messages queued while disconnected were sent, around a message that was
\* published later and sent earlier
C1_Witness ==
    \E i, j, k \in 1..Len(sent) :
        /\ i < j /\ sent[i] \in queuedDown /\ sent[j] \in queuedDown
        /\ k < j /\ sent[k] > sent[j]

\* C2: all messages are handed to the underlying channel in the order of their
\* publish() calls.
C2_PublishOrder ==
    \A i, j \in 1..Len(sent) : i < j => sent[i] < sent[j]

\* C3: close() rejects every queued message and leaves queueLength() = 0.
C3_CloseEmptiesQueue ==
    [][closeCalls' > closeCalls =>
         /\ \A m \in Range(messages) : rejected'[m] > 0
         /\ QueueLength' = 0]_vars

\* C4: reject is called at most once per message, and never both resolve and
\* reject for the same message.
C4_SettledAtMostOnce ==
    \A m \in Msgs :
        /\ rejected[m] <= 1
        /\ resolved[m] <= 1
        /\ ~(resolved[m] > 0 /\ rejected[m] > 0)

\* C5: once close() has been called, no message is handed to a channel.
C5_NoSendAfterClose ==
    [][closeCalls > 0 => ~Sends]_vars

\* C6: after close() the wrapper has no manager listeners and no channel handle.
C6_NoHandleAfterClose ==
    closeCalls > 0 => (~listening /\ channel = 0)

\* C7: a completion is resolved only for a message that was handed to the
\* channel, a message queued at close() is rejected, and once close() has been
\* called and nothing is in flight any more, no accepted message is pending.
C7_CompletionSettled ==
    \A m \in Msgs :
        /\ resolved[m] > 0 => m \in Range(sent)
        /\ (closeCalls > 0 /\ m < nextMsg /\ NothingInFlight)
              => resolved[m] + rejected[m] > 0

\* C8: while the setup pipeline of the current channel is running, no message
\* is sent on it, neither by publish() nor by the worker.
C8_NoSendDuringSetup ==
    [][(channel # 0 /\ PipelineRunning(channel)) => ~Sends]_vars

\* C9: per channel creation: setup, then re-subscription, then the worker
\* drains, then 'connect': the worker takes a queued message off the queue only
\* when the setup and the re-subscriptions of the current channel have
\* completed, and 'connect' is emitted in the step that starts the worker.
C9_PipelineOrder ==
    [][/\ Len(messages') < Len(messages)
            => (channel # 0 /\ pc[channel] \in {"resolved", "done"})
       /\ "connect" \in emitted'
            => \E i \in Conns : pc[i] = "resolved" /\ pc'[i] = "done"]_vars

\* C10: the setup function has run exactly once on every channel created, and
\* on no other: after k channel creations it has run k times.
C10_SetupOncePerChannel ==
    \A i \in Conns : setupRuns[i] = IF Created(i) THEN 1 ELSE 0

\* two channels were created, one after the other
C10_Witness ==
    /\ \A i \in Conns : i <= 2 => Created(i)
    /\ setupRuns[1] = 1 /\ setupRuns[2] = 1

\* a step in which the setup function of a pipeline settles
SetupSettles == \E i \in Conns : pc[i] = "setup" /\ pc'[i] # "setup"

\* a step in which _onConnect continues after `await this._settingUp`
OnConnectResumes == \E i \in Conns : pc[i] = "resolved" /\ pc'[i] = "done"

\* the registry as channel.consume calls on the handle h, in registry order
RegistryOn(h) == [j \in 1..Len(consumers) |-> <<consumers[j], h>>]

\* C11: a failing setup function is not fatal.  When the setup function
\* settles, an 'error' is emitted exactly when it failed with something other
\* than an IllegalOperationError; whatever the outcome the handle stays, the
\* pipeline goes on (it never takes the catch block) and the whole registry is
\* re-subscribed; the continuation of _onConnect then emits 'connect' and
\* starts the worker when there is something to send; and every channel
\* creation calls the setup function again.
C11_SetupFailureNotFatal ==
    [][ /\ SetupSettles =>
            /\ emitted' = (IF step'.input = "error" THEN {"error"} ELSE {})
            /\ channel' = channel
            /\ \E i \in Conns : pc[i] = "setup" /\ pc'[i] \in {"resub", "resolved"}
            /\ channel # 0 => step'.subs = RegistryOn(channel)
        /\ OnConnectResumes /\ channel # 0 =>
            /\ "connect" \in emitted'
            /\ ~working /\ ShouldPublish(channelHasRoom) => Sends
        /\ \A i \in Conns : pc[i] = "creating" /\ pc'[i] = "setup" =>
            setupRuns'[i] = setupRuns[i] + 1 ]_vars

\* the setup function failed on the channel of the second connection; the
\* error was emitted, the handle is kept and the consumer is re-subscribed
C11_Witness ==
    /\ step.input = "error"
    /\ emitted = {"error"}
    /\ channel = 2
    /\ setupRuns[1] = 1 /\ setupRuns[2] = 1
    /\ step.subs # <<>>
    /\ messages # <<>>

\* the wrapper hears the manager's 'disconnect' in this step
Disconnects == listening /\ connected /\ ~connected'

\* the manager has disconnected at least once
HasDisconnected == nconn >= 2 \/ (nconn = 1 /\ ~connected)

\* C12: on a manager disconnect the wrapper clears the handle and the setup
\* marker and halts the worker, and leaves the queue, the completions and the
\* consumer registry as they are; and once the manager has disconnected, a
\* message is sent only after the setup on the channel of the connection that
\* followed has completed.
C12_DisconnectHoldsQueue ==
    [][ /\ Disconnects =>
            /\ channel' = 0 /\ settingUp' = 0 /\ ~working'
            /\ messages' = messages
            /\ resolved' = resolved /\ rejected' = rejected
            /\ consumers' = consumers
        /\ Sends /\ listening /\ HasDisconnected =>
            connected /\ pc[nconn] \in {"resolved", "done"} ]_vars

\* a worker invocation that will send is scheduled: a pending setImmediate
\* callback of the current generation with _working set, or the continuation
\* of _onConnect that is about to call _startWorker
WorkerWillSend ==
    \/ working /\ workerNumber \in scheduled
    \/ \E i \in Conns : pc[i] = "resolved"

\* C13: the queue drains.  Whenever the queue is not empty, there is a handle,
\* no setup is running and the channel has room, a worker invocation that will
\* send is active or scheduled (so that, with no further disconnect, close or
\* channel failure and a 'drain' after every backpressure, every queued
\* message is eventually handed to the channel).
C13_QueueDrains ==
    (messages # <<>> /\ channel # 0 /\ settingUp = 0 /\ channelHasRoom
        /\ ~PipelineRunning(channel))
    => WorkerWillSend

\* C14: the wrapper holds one handle or none, and uses only that one: every
\* channel.publish and every channel.consume of a step is called on the handle
\* held when the step is taken, so a handle that was replaced or cleared is
\* not used again.
C14_OnlyCurrentHandle ==
    [][ /\ channel \in {0} \cup Conns
        /\ Sends => channel # 0 /\ step'.sentOn = channel
        /\ \A j \in 1..Len(step'.subs) :
              channel # 0 /\ step'.subs[j][2] = channel
        /\ \A q \in requests' \ requests : channel # 0 /\ q.ch = channel ]_vars

\* a batch goes out on the second channel, on which the consumer is
\* subscribed, while the first channel is still open
C14_Witness ==
    /\ step.sentOn = 2
    /\ channel = 2
    /\ 1 \in open
    /\ <<1, 2>> \in active

\* C15: whenever a channel is created, the registry is re-subscribed on it.
\* When the setup function of the channel of the current connection settles
\* and that channel has not been closed, channel.consume is called on it for
\* every consumer of the registry (those registered while disconnected
\* included), in registry order.
C15_RegistryResubscribed ==
    [][ \A i \in Conns :
          (pc[i] = "setup" /\ pc'[i] # "setup" /\ listening /\ connected
              /\ nconn = i /\ i \in open)
          => step'.subs = RegistryOn(i) ]_vars

\* the consumers of the registry
Registered == Range(consumers)

\* the broker cancels consumer c in this step: a subscription of c ends while
\* its channel stays open and the registry stays as it is
BrokerCancels(c) ==
    /\ \E k \in Conns : <<c, k>> \in active /\ <<c, k>> \notin active'
    /\ open' = open
    /\ consumers' = consumers

\* C16: when the broker cancels a consumer (null message), the wrapper clears
\* the consumer's tag and does not call the caller's handler; a consumer that
\* is still in the registry is subscribed again at once on the handle held, a
\* consumer that cancel() or cancelAll() removed is not.
C16_BrokerCancelResubscribes ==
    [][ \A c \in Cons : BrokerCancels(c) =>
          /\ consumerTag'[c] = 0
          /\ ~step'.handled
          /\ step'.subs = IF c \in Registered /\ channel # 0
                          THEN << <<c, channel>> >> ELSE <<>>
          /\ \A q \in requests' \ requests : q.c = c /\ q.ch = channel ]_vars

\* the broker has just cancelled consumer 1 and the wrapper subscribed it
\* again, while consumer 2, removed by cancel(), was left alone
C16_Witness ==
    /\ step.subs = << <<1, channel>> >>
    /\ consumerTag[1] = 0
    /\ [c |-> 1, ch |-> channel, by |-> -1] \in requests
    /\ cpc[2] = "done" /\ 2 \notin Registered

\* a re-subscription (after a broker cancel or in a pipeline, not the
\* subscription of a consume() call) is rejected in this step
ResubscriptionFails ==
    /\ step'.input \in ErrorCodes
    /\ \E q \in requests \ requests' : q.by # 0

\* C17: a failed re-subscription, after a broker cancel or during channel
\* creation, emits no 'error' and leaves the handle alone when its code is 404,
\* and emits 'error' when it has any other code.
C17_MissingQueueSuppressed ==
    [][ ResubscriptionFails =>
          /\ step'.input = "404" => emitted' = {} /\ channel' = channel
          /\ step'.input # "404" => emitted' = {"error"} ]_vars

\* C18: cancel(tag) removes the one consumer with that tag and leaves the
\* other entries and their order alone; it calls channel.cancel exactly when
\* there is a handle and the removed consumer holds a tag; with a tag the
\* registry does not hold it changes nothing; and no channel.consume is ever
\* called for a consumer that is not in the registry, so a removed consumer is
\* not subscribed again by a later channel creation.
C18_CancelRemovesOne ==
    [][ /\ \A c \in Cons : step'.cancelOf = c =>
              IF c \in Registered
              THEN /\ Len(consumers') = Len(consumers) - 1
                   /\ consumers' = SelectSeq(consumers, LAMBDA x : x # c)
                   /\ step'.cancels =
                         IF channel # 0 /\ consumerTag[c] # 0 THEN {c} ELSE {}
              ELSE /\ step'.cancels = {}
                   /\ UNCHANGED <<wrapperVars, managerVars, asyncVars>>
        /\ \A j \in 1..Len(step'.subs) : step'.subs[j][1] \in Range(consumers')
        /\ \A q \in requests' \ requests : q.c \in Range(consumers') ]_vars

\* cancel() has just removed consumer 1, which held a tag, and called
\* channel.cancel for it; consumer 2 is still registered
C18_Witness ==
    /\ step.cancelOf = 1
    /\ step.cancels = {1}
    /\ consumers = <<2>>
    /\ channel # 0

\* consume() puts consumer c into the registry in this step
Registers(c) == c \notin Registered /\ c \in Range(consumers')

\* C19: consume() adds its consumer to the registry once, at the tail, and
\* only when no setup is in flight on the handle held; it then calls
\* channel.consume for it on that handle, and without a handle it only
\* registers the consumer and returns.
C19_ConsumeWaitsForSetup ==
    [][ \A c \in Cons : Registers(c) =>
          /\ consumers' = Append(consumers, c)
          /\ settingUp = 0
          /\ channel # 0 => ~PipelineRunning(channel)
          /\ step'.subs = IF channel # 0 THEN << <<c, channel>> >> ELSE <<>>
          /\ channel = 0 => cpc'[c] = "done" ]_vars

\* publish() is called in this step
Publishes == nextMsg' = nextMsg + 1

StaleTick == \E w \in scheduled : w \notin scheduled' /\ w # workerNumber

\* C21: a worker invocation whose captured generation number differs from
\* the current one is a no-op: it sends nothing and leaves the queue, the
\* channel handle, the flow-control flag, the 'worker active' flag and the
\* generation counter as they were.
C21_StaleInvocationNoOp ==
    [][StaleTick => /\ ~Sends
                    /\ UNCHANGED <<messages, channel, channelHasRoom, working,
                                   workerNumber>>]_vars

\* C22: at most one worker invocation chain is able to send: whenever a
\* worker invocation sends, it is the one of the current generation, and the
\* generation counter never goes back, so a chain that has been replaced
\* never drains the queue again.
C22_OneWorkerSends ==
    [][/\ workerNumber' >= workerNumber
       /\ (step'.worker # 0 => step'.worker = workerNumber')]_vars

\* the current worker has just sent while a callback of a replaced worker is
\* still scheduled
C22_Witness ==
    /\ step.worker # 0
    /\ step.worker = workerNumber
    /\ \E w \in scheduled : w < workerNumber

\* a worker invocation has sent in this step
WorkerSends == step'.worker # 0

\* C23: one worker invocation sends at most MAX_MESSAGES_PER_BATCH messages;
\* when the queue is still non-empty and the channel has room afterwards it
\* leaves exactly one callback with its own generation number scheduled and
\* the worker active, otherwise none; the other scheduled callbacks are as
\* they were.
C23_BatchCeiling ==
    [][WorkerSends =>
          /\ Len(sent') - Len(sent) <= MAX_MESSAGES_PER_BATCH
          /\ scheduled' \ {step'.worker} = scheduled \ {step'.worker}
          /\ IF Len(messages') > 0 /\ channelHasRoom'
                THEN step'.worker \in scheduled' /\ working'
                ELSE step'.worker \notin scheduled' /\ ~working']_vars

\* more messages than the ceiling have been sent, the last batch by a worker
\* invocation that left its successor scheduled for the rest of the queue
C23_Witness ==
    /\ Len(sent) > MAX_MESSAGES_PER_BATCH
    /\ step.worker # 0
    /\ step.worker \in scheduled
    /\ Len(messages) > 0
    /\ channelHasRoom

\* a 'drain' event of a channel is handled in this step
Drains == step'.input = "drain"

\* C24: the flow-control flag becomes false exactly when a send returns
\* false; while it is false neither publish() nor the worker sends (publish()
\* queues); a drain signal sets it to true (it is true afterwards unless the
\* worker it started has sent) and starts the worker when there is a queue to
\* send, a channel, no setup and no active worker; creating a channel resets
\* it to true.
C24_FlowControl ==
    [][/\ (step'.rets # {} => (channelHasRoom' <=> FALSE \notin step'.rets))
       /\ (step'.rets = {} /\ channelHasRoom => channelHasRoom')
       /\ (~channelHasRoom /\ ~Drains => ~Sends)
       /\ (~channelHasRoom /\ Publishes => messages' = Append(messages, nextMsg))
       /\ (Drains =>
             /\ Sends \/ channelHasRoom'
             /\ (Len(messages) > 0 /\ channel # 0 /\ settingUp = 0 /\ ~working
                    => WorkerSends /\ workerNumber' = workerNumber + 1))
       /\ (\E i \in Conns : pc[i] = "creating" /\ pc'[i] = "setup")
             => channelHasRoom'
      ]_vars

\* a drain signal has started the worker, whose send returned false again:
\* the flag is false and the rest of the queue waits
C24_Witness ==
    /\ step.input = "drain"
    /\ step.worker # 0
    /\ ~channelHasRoom
    /\ Len(messages) > 0

\* consumer c is subscribed at the broker on the wrapper's current channel
SubscribedOnLive(c) == channel # 0 /\ <<c, channel>> \in active

\* C25: a registered consumer's broker tag is non-null exactly when the
\* consumer is subscribed on the wrapper's live channel.
C25_TagIffSubscribed ==
    \A c \in Registered : consumerTag[c] # 0 <=> SubscribedOnLive(c)

\* _startWorker() is called in this step: by _onConnect after the setup, when
\* there is a handle, or by the drain handler
StartWorkerCalled == (OnConnectResumes /\ channel # 0) \/ Drains

\* what _shouldPublish() answers inside that call: the drain handler has set
\* the flag to true before it calls
SendableAtCall ==
    Len(messages) > 0 /\ settingUp = 0 /\ channel # 0 /\ (Drains \/ channelHasRoom)

\* C26: the generation counter never decreases; it increases by exactly 1 in
\* a _startWorker call that finds no active worker and something to send,
\* and at no other time; a _startWorker call made while a worker is active or
\* while nothing can be sent changes neither the counter nor the 'worker
\* active' flag.
C26_GenerationCounter ==
    [][/\ workerNumber' \in {workerNumber, workerNumber + 1}
       /\ workerNumber' # workerNumber
             <=> (StartWorkerCalled /\ ~working /\ SendableAtCall)
       /\ (StartWorkerCalled /\ (working \/ ~SendableAtCall)
             => UNCHANGED <<workerNumber, working>>)]_vars

\* _startWorker was called by the drain handler while a worker was active:
\* the counter stays at the generation started before
C26_Witness ==
    /\ step.input = "drain"
    /\ step.worker = 0
    /\ working
    /\ workerNumber >= 1
    /\ Len(messages) > 0

\* message m is in the outbound queue
Queued(m) == \E i \in 1..Len(messages) : messages[i] = m

\* the completion of message m has been resolved or rejected
Settled(m) == resolved[m] + rejected[m] > 0

\* C27: every message accepted by publish() is either still in the outbound
\* queue with its completion unsettled, or out of the queue with its
\* completion settled.
C27_QueuedOrSettled ==
    \A m \in 1..(nextMsg - 1) : Queued(m) <=> ~Settled(m)

\* the connect attempt i fails in this step: createChannel rejects, or a
\* channel.consume of its re-subscription step does
AttemptFails(i) ==
    pc[i] \in {"creating", "resub"} /\ pc'[i] \in {"createFailed", "failed"}

\* C28: when channel creation or the re-subscription step of connect attempt
\* i fails, an 'error' is emitted and queue and registry stay as they are; if
\* i is the latest attempt the wrapper ends with no handle and no setup
\* marker, and a handle or marker installed by a later attempt is not cleared.
C28_FailedAttempt ==
    [][\A i \in Conns : AttemptFails(i) =>
          /\ "error" \in emitted'
          /\ UNCHANGED <<messages, consumers>>
          /\ (nconn = i => channel' = 0 /\ settingUp' = 0)
          /\ (channel > i => channel' = channel)
          /\ (settingUp > i => settingUp' = settingUp)]_vars

\* C29: once cancel(tag) or cancelAll() has removed a consumer from the
\* registry and no channel.consume request of it is in flight any more, the
\* broker holds no subscription of that consumer on the wrapper's live
\* channel.
C29_CancelledNotSubscribed ==
    \A c \in Cons :
        (c \notin Registered /\ ~\E q \in requests : q.c = c)
            => ~SubscribedOnLive(c)

\* the 'close' event of channel k is handled in this step
ChannelCloses(k) == k \in open /\ k \notin open'

\* C30: a 'close' event of a channel clears the wrapper's handle only if
\* that channel is the current handle; a 'close' of a channel that has been
\* replaced leaves the current handle as it is; either way the queue, the
\* setup marker, the flow-control flag, the 'worker active' flag and the
\* generation counter are unchanged.
C30_CloseOfCurrentOnly ==
    [][\A k \in Conns : ChannelCloses(k) =>
          /\ channel' = (IF channel = k THEN 0 ELSE channel)
          /\ UNCHANGED <<messages, settingUp, channelHasRoom, working,
                         workerNumber>>]_vars

\* channel 1 has closed after channel 2 replaced it: the handle is still
\* channel 2
C30_Witness ==
    /\ channel = 2
    /\ pc[1] \in {"done", "failed", "resolved", "setup", "resub"}
    /\ 1 \notin open
    /\ 2 \in open

\* the 'drain' event handled in this step comes from channel k, which is
\* not the wrapper's current channel
StaleDrain(k) == Drains /\ k \in pressured /\ k \notin pressured' /\ k # channel

\* C31: a drain signal from a channel that has been replaced, arriving
\* while the current channel still reports backpressure, does not set the
\* flow-control flag to true and does not start the worker.
C31_StaleDrainIgnored ==
    [][\A k \in Conns :
          (StaleDrain(k) /\ channel # 0 /\ channel \in pressured /\ ~channelHasRoom)
             => /\ ~channelHasRoom'
                /\ ~Sends
                /\ UNCHANGED <<workerNumber, working>>]_vars

====
